---- MODULE Spec2Model ----
(***************************************************************************)
(* A model of MarkdownViewer (src/main.py): the debounced live preview,    *)
(* the theme compositor, the file operations, the two exports and the AI  *)
(* assistant's credential handling.  One action per Qt slot / callback.   *)
(* Strings are sequences of one-character strings; an HTML document is a  *)
(* sequence of tokens.                                                     *)
(***************************************************************************)
EXTENDS Integers, Sequences, FiniteSets, TLC

VARIABLES
    text,               \* editor.toPlainText()
    dark_checked,       \* dark_mode_action.isChecked()
    current_css,        \* self.current_css
    previewHtml,        \* the document last handed to preview.setHtml
    previewBase,        \* the baseUrl last handed to preview.setHtml
    previewBodyPx,      \* body font-size offset of the loaded page (set by the script)
    editorPt,           \* editor.font().pointSize()
    timerActive,        \* update_timer.isActive()
    timerLeft,          \* milliseconds left of the running countdown
    current_file_path,  \* self.current_file_path
    fs,                 \* the Markdown files on disk: path -> [exists, bytes]
    htmlFile,           \* the file export_to_html writes: [exists, bytes]
    pdfPending,         \* printToPdf requests issued and not yet completed
    pdfDone,            \* outcome of the print request completed last
    linesep,            \* os.linesep of the platform
    api_key_set,        \* self.api_key_set
    gemini_api_key,     \* self.gemini_api_key
    ai_input_text,      \* ai_input_text.toPlainText()
    ai_output_text,     \* ai_output_text.toPlainText()
    aiPc,               \* where run_ai_generation stands: idle, prompt, validating, sending
    lastOp,             \* observation: the slot that ran last, the file it succeeded on, what it reported
    \* history variables, read only by the properties
    editsSinceRender,   \* edit events since the last timer-driven render (saturating)
    rendersSinceEdit,   \* timer-driven renders since the last edit event
    renderText,         \* text and theme flag at the last update_preview call
    renderDark,
    lastSaved,          \* path -> the text the last successful save wrote there, if it still stands
    okPaths,            \* paths successfully opened or written so far
    keyRejected         \* the last key validation failed

themeVars == <<dark_checked, current_css>>
previewVars == <<previewHtml, previewBase, previewBodyPx, renderText, renderDark>>
timerVars == <<timerActive, timerLeft, editsSinceRender, rendersSinceEdit>>
diskVars == <<fs, lastSaved, okPaths>>
pdfVars == <<pdfPending, pdfDone>>
keyVars == <<api_key_set, gemini_api_key, keyRejected>>
aiTextVars == <<ai_input_text, ai_output_text>>
vars == <<text, themeVars, previewVars, editorPt, timerVars,
          current_file_path, diskVars, htmlFile, pdfVars, linesep,
          keyVars, aiTextVars, aiPc, lastOp>>

\* ---------------------------------------------------------------- constants and bounds
QuietMs == 300
MinPointSize == 4
TickMs == 150
MaxBurst == 2
MaxBodySteps == 1
MaxPointSize == 6
MaxPdfJobs == 1
MaxSelect == 1

\* ---------------------------------------------------------------- inputs
\* Documents an edit event can leave in the editor: empty, a word emphasised
\* with underscores, and two lines with a non-ASCII character.
\* "eacute" stands for the one character U+00E9.
Docs == { <<>>, <<"_", "a", "_">>, <<"eacute", "\n", "a">> }
NoPath == ""
Paths == {"p1", "p2"}
HtmlPaths == {"out.html"}
PdfPaths == {"out.pdf"}
Keys == {"", "good", "bad"}
NoKey == "None"
IoOutcomes == {"ok", "open_failed", "write_failed"}

\* ------------------------------------------------------ pure helpers
Min(a, b) == IF a < b THEN a ELSE b
Max(a, b) == IF a > b THEN a ELSE b

Op(name, arg, res) == [op |-> name, arg |-> arg, res |-> res]

None == [some |-> FALSE, doc |-> <<>>]
Some(d) == [some |-> TRUE, doc |-> d]

Absent == [exists |-> FALSE, bytes |-> <<>>]
File(b) == [exists |-> TRUE, bytes |-> b]

\* ------------------------------------------------------ markdown2.markdown
\* The conversion on the characters of Docs: paragraphs split at blank lines,
\* underscore emphasis unless the "code-friendly" extra is on, a final newline.
PreviewExtras == {"fenced-code-blocks", "tables", "highlightjs-classes", "code-friendly"}
ExportExtras == {"fenced-code-blocks", "tables"}

RECURSIVE StripLeadingNl(_)
StripLeadingNl(s) ==
    IF s # <<>> /\ Head(s) = "\n" THEN StripLeadingNl(Tail(s)) ELSE s

RECURSIVE StripTrailingNl(_)
StripTrailingNl(s) ==
    IF s # <<>> /\ s[Len(s)] = "\n" THEN StripTrailingNl(SubSeq(s, 1, Len(s) - 1)) ELSE s

\* Where the emphasis opened by s[1] = "_" closes (0: s opens none): the first
\* later "_" that follows a non-space, the opener being followed by a non-space.
EmClose(s) ==
    IF Len(s) < 3 \/ s[1] # "_" \/ s[2] = "\n" THEN 0
    ELSE LET C == {j \in 3..Len(s) : s[j] = "_" /\ s[j - 1] # "\n"}
         IN IF C = {} THEN 0 ELSE CHOOSE j \in C : \A k \in C : j <= k

RECURSIVE SpanGamut(_, _)
SpanGamut(s, codeFriendly) ==
    IF s = <<>> THEN <<>>
    ELSE IF ~codeFriendly /\ EmClose(s) > 0
         THEN <<"<em>">> \o SubSeq(s, 2, EmClose(s) - 1) \o <<"</em>">>
              \o SpanGamut(SubSeq(s, EmClose(s) + 1, Len(s)), codeFriendly)
         ELSE <<Head(s)>> \o SpanGamut(Tail(s), codeFriendly)

RECURSIVE FormParagraphs(_, _)
FormParagraphs(t, codeFriendly) ==
    LET u == StripLeadingNl(t)
        B == {i \in 1..(Len(u) - 1) : u[i] = "\n" /\ u[i + 1] = "\n"}
        i == CHOOSE j \in B : \A k \in B : j <= k
    IN  IF u = <<>> THEN <<>>
        ELSE IF B = {}
             THEN <<"<p>">> \o SpanGamut(StripTrailingNl(u), codeFriendly) \o <<"</p>", "\n">>
             ELSE <<"<p>">> \o SpanGamut(SubSeq(u, 1, i - 1), codeFriendly) \o <<"</p>", "\n", "\n">>
                  \o FormParagraphs(SubSeq(u, i + 2, Len(u)), codeFriendly)

markdown2(markdown_text, extras) ==
    LET body == FormParagraphs(markdown_text, "code-friendly" \in extras)
    IN  IF body = <<>> THEN <<"\n">> ELSE body

\* ------------------------------------------------------ styles and template
base_css == <<"base_css">>
pygments_css == <<"pygments_css">>
dark_mode_css == <<"dark_mode_css">>
pygments_dark_css == <<"pygments_dark_css">>

LightCss == base_css \o pygments_css
DarkCss == base_css \o dark_mode_css \o pygments_dark_css

\* html_template.format(css=css, content=content)
html_template(css, content) ==
    <<"<!DOCTYPE html>", "<html>", "<head>", "<meta charset=utf-g>", "<style>">>
    \o css \o <<"</style>", "</head>", "<body>">> \o content \o <<"</body>", "</html>">>

\* The document update_preview builds from the editor's text.
PreviewDocument(css, markdown_text) ==
    html_template(css, markdown2(markdown_text, PreviewExtras))

\* The document export_to_html builds from the editor's text.
ExportDocument(css, markdown_text) ==
    html_template(css, markdown2(markdown_text, ExportExtras))

\* ------------------------------------------------------ text files
\* open(path, 'w', encoding='utf-8').write(s): "\n" becomes os.linesep, then UTF-8.
Utf8Encode(c) == IF c = "eacute" THEN <<"xC3", "xA9">> ELSE <<c>>

\* Faulty variant: the file is written as ASCII with errors='ignore', which drops U+00E9.
RECURSIVE FileWrite_ascii_ignore(_, _)
FileWrite_ascii_ignore(s, sep) ==
    IF s = <<>> THEN <<>>
    ELSE (IF Head(s) = "\n" THEN sep ELSE IF Head(s) = "eacute" THEN <<>> ELSE <<Head(s)>>)
         \o FileWrite_ascii_ignore(Tail(s), sep)

RECURSIVE FileWrite(_, _)
FileWrite(s, sep) ==
    IF s = <<>> THEN <<>>
    ELSE (IF Head(s) = "\n" THEN sep ELSE Utf8Encode(Head(s))) \o FileWrite(Tail(s), sep)

\* open(path, 'r', encoding='utf-8').read(): UTF-8 decoding (a lone lead or
\* continuation byte raises), then "\r\n" and "\r" become "\n".
RECURSIVE Utf8Valid(_)
Utf8Valid(b) ==
    IF b = <<>> THEN TRUE
    ELSE IF Head(b) = "xC3" THEN Len(b) >= 2 /\ b[2] = "xA9" /\ Utf8Valid(SubSeq(b, 3, Len(b)))
    ELSE Head(b) # "xA9" /\ Utf8Valid(Tail(b))

RECURSIVE FileRead(_)
FileRead(b) ==
    IF b = <<>> THEN <<>>
    ELSE IF Head(b) = "xC3" THEN <<"eacute">> \o FileRead(SubSeq(b, 3, Len(b)))
    ELSE IF Head(b) = "\r" /\ Len(b) >= 2 /\ b[2] = "\n"
         THEN <<"\n">> \o FileRead(SubSeq(b, 3, Len(b)))
    ELSE IF Head(b) = "\r" THEN <<"\n">> \o FileRead(Tail(b))
    ELSE <<Head(b)>> \o FileRead(Tail(b))

\* os.path.dirname of a chosen path, as the preview's base URL.
Dirname(path) == <<"dir", path>>
Cwd == <<"cwd", "">>

\* ------------------------------------------------------ initial state
\* MarkdownViewer.__init__: no file, no key, the light bundle, an idle timer and
\* the initial empty preview.  One Markdown file already exists on disk.
Init ==
    /\ text = <<>>
    /\ dark_checked = FALSE
    /\ current_css = LightCss
    /\ previewHtml = PreviewDocument(LightCss, <<>>)
    /\ previewBase = Cwd
    /\ previewBodyPx = 0
    /\ editorPt = 5
    /\ timerActive = FALSE
    /\ timerLeft = 0
    /\ current_file_path = NoPath
    /\ fs = [p \in Paths |-> IF p = "p1" THEN File(<<"xC3", "xA9", "\r", "a">>) ELSE Absent]
    /\ htmlFile = Absent
    /\ pdfPending = <<>>
    /\ pdfDone = "none"
    /\ linesep \in {<<"\n">>, <<"\r", "\n">>}
    /\ api_key_set = FALSE
    /\ gemini_api_key = NoKey
    /\ ai_input_text = <<>>
    /\ ai_output_text = <<>>
    /\ aiPc = "idle"
    /\ lastOp = Op("__init__", "", "")
    /\ editsSinceRender = 0
    /\ rendersSinceEdit = 0
    /\ renderText = <<>>
    /\ renderDark = FALSE
    /\ lastSaved = [p \in Paths |-> None]
    /\ okPaths = {}
    /\ keyRejected = FALSE

\* The UI thread is free to run a slot: no modal prompt is open and no blocking
\* call is in progress.
UiFree == aiPc = "idle"

\* Timer events are delivered while an event loop runs: the main loop, the
\* modal prompt's nested loop, QApplication.processEvents().
LoopRuns == aiPc \in {"idle", "prompt", "sending"}

\* ------------------------------------------------------ the live preview
\* Faulty variant: a running countdown is left to run out (a throttle, not a debounce).
on_text_changed_no_restart ==
    /\ timerActive' = TRUE
    /\ timerLeft' = IF timerActive THEN timerLeft ELSE QuietMs
    /\ editsSinceRender' = Min(editsSinceRender + 1, MaxBurst)
    /\ rendersSinceEdit' = 0

\* Faulty variant: the timer is stopped and not started again.
on_text_changed_stop_only ==
    /\ timerActive' = FALSE
    /\ timerLeft' = 0
    /\ editsSinceRender' = Min(editsSinceRender + 1, MaxBurst)
    /\ rendersSinceEdit' = 0

\* on_text_changed: stop the timer, start it for 300 ms.
on_text_changed ==
    /\ timerActive' = TRUE
    /\ timerLeft' = QuietMs
    /\ editsSinceRender' = Min(editsSinceRender + 1, MaxBurst)
    /\ rendersSinceEdit' = 0

\* Faulty variant: the current file path is written into the document's style block.
update_preview_with_path ==
    /\ previewHtml' = PreviewDocument(current_css' \o <<current_file_path'>>, text')
    /\ previewBase' = IF current_file_path' # NoPath THEN Dirname(current_file_path') ELSE Cwd
    /\ previewBodyPx' = 0
    /\ renderText' = text'
    /\ renderDark' = dark_checked'

\* update_preview(): convert the editor's text, wrap it with the current CSS,
\* hand it to the preview with the base URL of the current file.
update_preview ==
    /\ previewHtml' = PreviewDocument(current_css', text')
    /\ previewBase' = IF current_file_path' # NoPath THEN Dirname(current_file_path') ELSE Cwd
    /\ previewBodyPx' = 0
    /\ renderText' = text'
    /\ renderDark' = dark_checked'

\* The user changes the document; editor.textChanged runs on_text_changed.
UserEdit(d) ==
    /\ UiFree
    /\ d # text
    /\ text' = d
    /\ on_text_changed
    /\ lastOp' = Op("edit", "", "")
    /\ UNCHANGED <<themeVars, previewVars, editorPt, current_file_path,
                   diskVars, htmlFile, pdfVars, linesep, keyVars, aiTextVars, aiPc>>

\* Time passes while the countdown runs.
Tick ==
    /\ timerActive
    /\ timerLeft > 0
    /\ timerLeft' = Max(0, timerLeft - TickMs)
    /\ UNCHANGED <<text, themeVars, previewVars, editorPt, timerActive, editsSinceRender,
                   rendersSinceEdit, current_file_path, diskVars, htmlFile,
                   pdfVars, linesep, keyVars, aiTextVars, aiPc, lastOp>>

\* update_timer.timeout: the single-shot timer stops and update_preview runs.
TimerFire ==
    /\ LoopRuns
    /\ timerActive
    /\ timerLeft = 0
    /\ timerActive' = FALSE
    /\ timerLeft' = 0
    /\ editsSinceRender' = 0
    /\ rendersSinceEdit' = rendersSinceEdit + 1
    /\ UNCHANGED <<text, themeVars, current_file_path>>
    /\ update_preview
    /\ lastOp' = Op("timeout", "", IF editsSinceRender >= 2 THEN "burst" ELSE "single")
    /\ UNCHANGED <<editorPt, diskVars, htmlFile, pdfVars, linesep, keyVars, aiTextVars, aiPc>>

\* Faulty variant: the two bundles are swapped.
ThemeCss_swapped(checked) ==
    IF checked THEN base_css \o pygments_css
               ELSE base_css \o dark_mode_css \o pygments_dark_css

\* The bundle toggle_dark_mode picks for the action's checked state.
ThemeCss(checked) ==
    IF checked THEN base_css \o dark_mode_css \o pygments_dark_css
               ELSE base_css \o pygments_css

\* toggle_dark_mode: the checkable action has flipped; pick the bundle, re-render.
toggle_dark_mode ==
    /\ UiFree
    /\ dark_checked' = ~dark_checked
    /\ current_css' = ThemeCss(dark_checked')
    /\ UNCHANGED <<text, current_file_path>>
    /\ update_preview
    /\ lastOp' = Op("toggle_dark_mode", "", "")
    /\ UNCHANGED <<editorPt, timerVars, diskVars, htmlFile, pdfVars, linesep,
                   keyVars, aiTextVars, aiPc>>

\* adjust_font_size(delta): the script adds delta to the page's body font size;
\* the editor's point size moves by delta // 2 unless that leaves it at 4 or less.
adjust_font_size(delta) ==
    /\ UiFree
    /\ previewBodyPx + delta \in (0 - 2 * MaxBodySteps)..(2 * MaxBodySteps)
    /\ editorPt + (delta \div 2) <= MaxPointSize
    /\ previewBodyPx' = previewBodyPx + delta
    /\ editorPt' = IF editorPt + (delta \div 2) > MinPointSize
                   THEN editorPt + (delta \div 2) ELSE editorPt
    /\ lastOp' = Op("adjust_font_size", "", "")
    /\ UNCHANGED <<text, themeVars, previewHtml, previewBase, renderText, renderDark,
                   timerVars, current_file_path, diskVars, htmlFile, pdfVars,
                   linesep, keyVars, aiTextVars, aiPc>>

\* ------------------------------------------------------ file operations
\* open_file: the dialog returns file_path ("" when cancelled); the file is read
\* and put in the editor (textChanged runs on_text_changed), then the path is kept.
open_file(file_path, io) ==
    /\ UiFree
    /\ IF file_path = NoPath
       THEN /\ lastOp' = Op("open_file", "", "cancelled")
            /\ UNCHANGED <<text, timerVars, current_file_path, okPaths>>
       ELSE IF fs[file_path].exists /\ io = "ok" /\ Utf8Valid(fs[file_path].bytes)
       THEN /\ text' = FileRead(fs[file_path].bytes)
            /\ on_text_changed
            /\ current_file_path' = file_path
            /\ okPaths' = okPaths \cup {file_path}
            /\ lastOp' = Op("open_file", file_path, "opened")
       ELSE /\ lastOp' = Op("open_file", "", "error")
            /\ UNCHANGED <<text, timerVars, current_file_path, okPaths>>
    /\ UNCHANGED <<themeVars, previewVars, editorPt, fs, lastSaved, htmlFile,
                   pdfVars, linesep, keyVars, aiTextVars, aiPc>>

\* The try block of save_file: open path for writing (truncating it) and write
\* the editor's text; report the outcome under the slot's name.
WriteEditorText(path, io, slot) ==
    /\ fs' = CASE io = "ok" -> [fs EXCEPT ![path] = File(FileWrite(text, linesep))]
               [] io = "open_failed" -> fs
               [] io = "write_failed" -> [fs EXCEPT ![path] = File(<<>>)]
    /\ lastSaved' = CASE io = "ok" -> [lastSaved EXCEPT ![path] = Some(text)]
                      [] io = "open_failed" -> lastSaved
                      [] io = "write_failed" -> [lastSaved EXCEPT ![path] = None]
    /\ okPaths' = IF io = "ok" THEN okPaths \cup {path} ELSE okPaths
    /\ lastOp' = Op(slot, IF io = "ok" THEN path ELSE "", IF io = "ok" THEN "saved" ELSE "error")

\* save_file_as: the dialog returns file_path; a chosen path becomes the current
\* file and save_file writes to it.
SaveAs(file_path, io, slot) ==
    IF file_path # NoPath
    THEN /\ current_file_path' = file_path
         /\ WriteEditorText(file_path, io, slot)
    ELSE /\ lastOp' = Op(slot, "", "cancelled")
         /\ UNCHANGED <<current_file_path, diskVars>>

save_file_as(file_path, io) ==
    /\ UiFree
    /\ SaveAs(file_path, io, "save_file_as")
    /\ UNCHANGED <<text, themeVars, previewVars, editorPt, timerVars, htmlFile,
                   pdfVars, linesep, keyVars, aiTextVars, aiPc>>

\* save_file: write to the current file, or ask for one when there is none.
save_file(file_path, io) ==
    /\ UiFree
    /\ IF current_file_path # NoPath
       THEN /\ file_path = NoPath
            /\ WriteEditorText(current_file_path, io, "save_file")
            /\ UNCHANGED current_file_path
       ELSE SaveAs(file_path, io, "save_file")
    /\ UNCHANGED <<text, themeVars, previewVars, editorPt, timerVars, htmlFile,
                   pdfVars, linesep, keyVars, aiTextVars, aiPc>>

\* export_to_html: convert the editor's text, wrap it, write it to the chosen file.
export_to_html(file_path, io) ==
    /\ UiFree
    /\ IF file_path = NoPath
       THEN /\ lastOp' = Op("export_to_html", "", "cancelled")
            /\ UNCHANGED htmlFile
       ELSE /\ htmlFile' =
                 CASE io = "ok" -> File(FileWrite(ExportDocument(current_css, text), linesep))
                   [] io = "open_failed" -> htmlFile
                   [] io = "write_failed" -> File(<<>>)
            /\ lastOp' = Op("export_to_html", "", IF io = "ok" THEN "exported" ELSE "error")
    /\ UNCHANGED <<text, themeVars, previewVars, editorPt, timerVars,
                   current_file_path, diskVars, pdfVars, linesep, keyVars, aiTextVars, aiPc>>

\* Faulty variant: the editor's text is rendered afresh for printing.
PrintedDocument_fresh_render == PreviewDocument(current_css, text)

\* What preview.page().printToPdf prints: the page as it is loaded.
PrintedDocument == previewHtml

\* export_to_pdf: nothing on a cancelled dialog; otherwise ask the page to print
\* what it shows and call handle_pdf_creation(True) at once, or
\* handle_pdf_creation(False) when the request itself raises.
export_to_pdf(file_path, raises) ==
    /\ UiFree
    /\ IF file_path = NoPath
       THEN /\ lastOp' = Op("export_to_pdf", "", "cancelled")
            /\ UNCHANGED pdfPending
       ELSE IF raises
       THEN /\ lastOp' = Op("export_to_pdf", "", "failed")
            /\ UNCHANGED pdfPending
       ELSE /\ Len(pdfPending) < MaxPdfJobs
            /\ pdfPending' = Append(pdfPending, [path |-> file_path, doc |-> PrintedDocument])
            /\ lastOp' = Op("export_to_pdf", "", "success")
    /\ UNCHANGED <<text, themeVars, previewVars, editorPt, timerVars,
                   current_file_path, diskVars, htmlFile, pdfDone, linesep, keyVars,
                   aiTextVars, aiPc>>

\* The web engine finishes a print request, with or without success; no slot
\* of the window is connected to it.
PdfComplete(job, ok) ==
    /\ job \in 1..Len(pdfPending)
    /\ pdfPending' = SubSeq(pdfPending, 1, job - 1) \o SubSeq(pdfPending, job + 1, Len(pdfPending))
    /\ pdfDone' = IF ok THEN "ok" ELSE "failed"
    /\ UNCHANGED <<text, themeVars, previewVars, editorPt, timerVars,
                   current_file_path, diskVars, htmlFile, linesep, keyVars, aiTextVars,
                   aiPc, lastOp>>

\* ------------------------------------------------------ the AI assistant
\* What the cursor can have selected: nothing, or the first characters of the text.
Selections(t) == {SubSeq(t, 1, n) : n \in 0..Min(Len(t), MaxSelect)}

\* prepare_ai_tab: a non-empty selection becomes the content to analyze and the
\* old response is cleared.
prepare_ai_tab(selected_text) ==
    /\ UiFree
    /\ IF selected_text = <<>>
       THEN /\ lastOp' = Op("prepare_ai_tab", "", "no_selection")
            /\ UNCHANGED aiTextVars
       ELSE /\ ai_input_text' = selected_text
            /\ ai_output_text' = <<>>
            /\ lastOp' = Op("prepare_ai_tab", "", "sent")
    /\ UNCHANGED <<text, themeVars, previewVars, editorPt, timerVars,
                   current_file_path, diskVars, htmlFile, pdfVars, linesep, keyVars, aiPc>>

\* Faulty variant: the cached key is never taken and the prompt is shown on every call.
HasCachedKey_ignored == FALSE

\* The first test of get_api_key: a key is stored and flagged.
HasCachedKey == api_key_set /\ gemini_api_key # NoKey

\* run_ai_generation up to the key prompt: no content, a cached key (get_api_key
\* returns True at once), or the modal prompt.
run_ai_generation ==
    /\ UiFree
    /\ IF ai_input_text = <<>>
       THEN /\ aiPc' = "idle"
            /\ lastOp' = Op("run_ai_generation", "", "no_content")
       ELSE IF HasCachedKey
       THEN /\ aiPc' = "sending"
            /\ lastOp' = Op("run_ai_generation", "", "cached_key")
       ELSE /\ aiPc' = "prompt"
            /\ lastOp' = Op("run_ai_generation", "", "prompt")
    /\ UNCHANGED <<text, themeVars, previewVars, editorPt, timerVars,
                   current_file_path, diskVars, htmlFile, pdfVars, linesep, keyVars,
                   aiTextVars>>

\* get_api_key after QInputDialog.getText returns (entered, ok): an accepted
\* non-empty key is stored and flagged before it is validated.
KeyPromptAnswer(entered, ok) ==
    /\ aiPc = "prompt"
    /\ IF ok /\ entered # ""
       THEN /\ gemini_api_key' = entered
            /\ api_key_set' = TRUE
            /\ aiPc' = "validating"
            /\ lastOp' = Op("get_api_key", "", "entered")
       ELSE /\ aiPc' = "idle"
            /\ lastOp' = Op("get_api_key", "", "cancelled")
            /\ UNCHANGED <<api_key_set, gemini_api_key>>
    /\ UNCHANGED <<text, themeVars, previewVars, editorPt, timerVars,
                   current_file_path, diskVars, htmlFile, pdfVars, linesep, keyRejected,
                   aiTextVars>>

\* Faulty variant: the rejected key stays stored and flagged.
RejectKey_keeps_key == UNCHANGED <<api_key_set, gemini_api_key>>

\* The except block of get_api_key: forget the key.
RejectKey ==
    /\ api_key_set' = FALSE
    /\ gemini_api_key' = NoKey

\* genai.configure / genai.get_model return or raise; a wrong key always raises,
\* a right one raises when the service cannot be reached.
ValidateKey(raises) ==
    /\ aiPc = "validating"
    /\ gemini_api_key = "bad" => raises
    /\ IF raises
       THEN /\ RejectKey
            /\ keyRejected' = TRUE
            /\ aiPc' = "idle"
            /\ lastOp' = Op("get_api_key", "", "invalid")
       ELSE /\ keyRejected' = FALSE
            /\ aiPc' = "sending"
            /\ lastOp' = Op("get_api_key", "", "valid")
            /\ UNCHANGED <<api_key_set, gemini_api_key>>
    /\ UNCHANGED <<text, themeVars, previewVars, editorPt, timerVars,
                   current_file_path, diskVars, htmlFile, pdfVars, linesep, aiTextVars>>

\* model.generate_content(prompt) returns a response or raises.
GenerateContent(ok) ==
    /\ aiPc = "sending"
    /\ aiPc' = "idle"
    /\ ai_output_text' = IF ok THEN <<"response">> ELSE ai_output_text
    /\ lastOp' = Op("generate_content", "", IF ok THEN "response" ELSE "error")
    /\ UNCHANGED <<text, themeVars, previewVars, editorPt, timerVars,
                   current_file_path, diskVars, htmlFile, pdfVars, linesep, keyVars,
                   ai_input_text>>

\* ------------------------------------------------------ specifications
\* The editor and its debounce timer: part of every specification.
NextCore ==
    \/ \E d \in Docs : UserEdit(d)
    \/ Tick
    \/ TimerFire

NextView ==
    \/ toggle_dark_mode
    \/ \E delta \in {2, 0 - 2} : adjust_font_size(delta)

NextOpen == \E p \in Paths \cup {NoPath}, io \in {"ok", "open_failed"} : open_file(p, io)

NextSave ==
    \/ \E p \in Paths \cup {NoPath}, io \in IoOutcomes : save_file(p, io)
    \/ \E p \in Paths \cup {NoPath}, io \in IoOutcomes : save_file_as(p, io)

NextFile == NextOpen \/ NextSave

NextHtml == \E p \in HtmlPaths \cup {NoPath}, io \in IoOutcomes : export_to_html(p, io)

NextPdf ==
    \/ \E p \in PdfPaths \cup {NoPath}, raises \in BOOLEAN : export_to_pdf(p, raises)
    \/ \E job \in 1..Len(pdfPending), ok \in BOOLEAN : PdfComplete(job, ok)

NextExport == NextHtml \/ NextPdf

NextAI ==
    \/ \E sel \in Selections(text) : prepare_ai_tab(sel)
    \/ run_ai_generation
    \/ \E entered \in Keys, ok \in BOOLEAN : KeyPromptAnswer(entered, ok)
    \/ \E raises \in BOOLEAN : ValidateKey(raises)
    \/ \E ok \in BOOLEAN : GenerateContent(ok)

\* Every slot of the window.
Next == NextCore \/ NextView \/ NextFile \/ NextExport \/ NextAI

Spec == Init /\ [][Next]_vars

\* The live preview with the theme, the font size and the opening of files.
SpecPreview == Init /\ [][NextCore \/ NextView \/ NextOpen]_vars

\* The editor and the files.
SpecFiles == Init /\ [][NextCore \/ NextFile]_vars

\* The preview, the theme and the export to HTML.
SpecExport == Init /\ [][NextCore \/ toggle_dark_mode \/ NextHtml]_vars

\* The preview, the theme and the export to PDF.
SpecPdf == Init /\ [][NextCore \/ toggle_dark_mode \/ NextPdf]_vars

\* The editor and the AI assistant.
SpecAI == Init /\ [][NextCore \/ NextAI]_vars

\* A whole session: edits, the timer, the theme, the font size, opening and
\* saving a file, and a run of the AI assistant with an accepted key.
SpecSession ==
    Init /\ [][\/ NextCore
              \/ NextView
              \/ \E p \in {"p1", NoPath} : open_file(p, "ok")
              \/ save_file("p1", "ok")
              \/ prepare_ai_tab(SubSeq(text, 1, Min(Len(text), 1)))
              \/ run_ai_generation
              \/ KeyPromptAnswer("good", TRUE)
              \/ ValidateKey(FALSE)
              \/ GenerateContent(TRUE)]_vars

\* FairPreview: the event loop delivers a due timeout, and time passes.
FairPreview == SpecPreview /\ WF_vars(Tick) /\ WF_vars(TimerFire)

\* ------------------------------------------------------ reading a document
\* The CSS bundle that goes with a state of the dark-mode action.
CssOf(dark) == IF dark THEN DarkCss ELSE LightCss

\* Position of the first token tok in document h.
IndexOf(h, tok) == CHOOSE i \in 1..Len(h) : h[i] = tok /\ \A j \in 1..(i - 1) : h[j] # tok

\* The injected CSS block, the content fragment, and the rest of a document.
StyleOf(h) == SubSeq(h, IndexOf(h, "<style>") + 1, IndexOf(h, "</style>") - 1)
BodyOf(h) == SubSeq(h, IndexOf(h, "<body>") + 1, IndexOf(h, "</body>") - 1)
SkeletonOf(h) ==
    SubSeq(h, 1, IndexOf(h, "<style>")) \o
    SubSeq(h, IndexOf(h, "</style>"), IndexOf(h, "<body>")) \o
    SubSeq(h, IndexOf(h, "</body>"), Len(h))

\* A step in which on_text_changed ran.
EditEvent ==
    \/ text' # text
    \/ timerActive' /\ ~timerActive
    \/ timerActive' /\ timerLeft' > timerLeft
    \/ editsSinceRender' > editsSinceRender

\* The preview shows the render of the editor's text under the current theme.
InSync == previewHtml = PreviewDocument(CssOf(dark_checked), text)

\* ------------------------------------------------------ C1
\* Counting: since the last edit event the timer has rendered at most once;
\* while the countdown runs the burst has at least one edit and no render yet;
\* once the timer is idle every edit has been rendered.
DebounceCounts ==
    /\ rendersSinceEdit <= 1
    /\ timerActive => (rendersSinceEdit = 0 /\ editsSinceRender >= 1)
    /\ ~timerActive => editsSinceRender = 0

\* Every edit event leaves the timer running with the full 300 ms ahead.
EditRestarts == EditEvent => (timerActive' /\ timerLeft' = QuietMs)

\* A timer-driven render happens only when the countdown has elapsed, stops the
\* timer, and is one call of update_preview on the text as it is then.
FireOnce ==
    rendersSinceEdit' # rendersSinceEdit /\ ~EditEvent =>
        /\ timerActive /\ timerLeft = 0
        /\ ~timerActive'
        /\ rendersSinceEdit' = rendersSinceEdit + 1
        /\ previewHtml' = PreviewDocument(current_css, text)

\* C1: every edit event stops the single-shot timer and restarts its 300 ms
\* countdown, so a burst of N >= 1 edits, each arriving before the countdown of
\* the one before has fired, is rendered by the timer exactly once, after the
\* last of them; an edit arriving after the timer fired starts a burst of its
\* own, with its own render.
C1_DebounceOnce == []DebounceCounts /\ [][EditRestarts /\ FireOnce]_vars

\* A burst of two or more edits has just been rendered, once.
C1_Witness ==
    /\ lastOp = Op("timeout", "", "burst")
    /\ rendersSinceEdit = 1
    /\ ~timerActive

\* ------------------------------------------------------ C2
\* The document held by the preview is the render of the text and the theme
\* flag of the last update_preview call.
PreviewIsRender == previewHtml = PreviewDocument(CssOf(renderDark), renderText)

\* The step changed what the preview holds, or what it was rendered from.
PreviewChanged == <<previewHtml, renderText, renderDark>>' # <<previewHtml, renderText, renderDark>>

\* C2 as stated: the document held by the preview is determined by the text and
\* the theme flag as they were at the last settled debounce tick, and nothing
\* but a settled debounce tick changes it.
C2_OnlyDebounceTick ==
    [][PreviewChanged =>
          /\ lastOp'.op = "timeout"
          /\ previewHtml' = PreviewDocument(CssOf(dark_checked), text)]_vars

\* C2 as amended: the document held by the preview is the render of the text and
\* the theme flag as they were at the last render, which is the initial render,
\* a settled debounce tick or a theme toggle (it renders the current text at
\* once, a pending countdown notwithstanding); the file path, the font sizes and
\* the AI state never enter it, and no other step changes it.
C2_LastRender ==
    /\ []PreviewIsRender
    /\ [][PreviewChanged =>
            /\ lastOp'.op \in {"timeout", "toggle_dark_mode"}
            /\ renderText' = text'
            /\ renderDark' = dark_checked']_vars

\* A toggle rendered a text whose countdown still runs, with a file open and the
\* editor font enlarged.
C2_Witness ==
    /\ lastOp.op = "toggle_dark_mode"
    /\ timerActive
    /\ renderText # <<>>
    /\ current_file_path # NoPath
    /\ editorPt # 5

\* ------------------------------------------------------ C3
\* A step of toggle_dark_mode.
ToggleStep == dark_checked' # dark_checked

Quiescent == ~timerActive => previewHtml = PreviewDocument(current_css, text)

\* C9: with the timer idle the last document handed to the preview was computed
\* from the editor's current text and the current CSS; and if edit events stop,
\* the preview ends up showing the render of the final text under the final theme.
C9_QuiescentConsistency ==
    /\ []Quiescent
    /\ (<>[][~EditEvent]_vars) => <>[]InSync

\* A file was opened over a stale preview, the timer fired, and the preview
\* shows the file's text under the dark theme.
C9_Witness ==
    /\ lastOp.op = "timeout"
    /\ ~timerActive
    /\ current_file_path # NoPath
    /\ text = <<"eacute", "\n", "a">>
    /\ dark_checked
    /\ InSync

\* ------------------------------------------------------ C4
\* C4: a successful open_file of a path P whose last write was a successful
\* save_file / save_file_as of text T leaves the editor holding exactly T, with
\* current_file_path equal to P, whatever was edited in between.
C4_SaveOpenRoundTrip ==
    \A p \in Paths :
        (lastOp = Op("open_file", p, "opened") /\ lastSaved[p].some) =>
            (text = lastSaved[p].doc /\ current_file_path = p)

\* On a CRLF platform two different texts were saved to the two paths, and the
\* first, with its line break and its non-ASCII character, was opened again.
C4_Witness ==
    /\ lastOp = Op("open_file", "p1", "opened")
    /\ linesep = <<"\r", "\n">>
    /\ lastSaved["p1"] = Some(<<"eacute", "\n", "a">>)
    /\ lastSaved["p2"] = Some(<<"_", "a", "_">>)
    /\ text = <<"eacute", "\n", "a">>

\* ------------------------------------------------------ C10
\* A file operation that just reported an error or was cancelled.
FailedFileOp ==
    /\ lastOp' # lastOp
    /\ lastOp'.op \in {"open_file", "save_file", "save_file_as", "export_to_html"}
    /\ lastOp'.res \in {"error", "cancelled"}

\* C10: a file operation that fails or is cancelled leaves the document text and
\* current_file_path as they were, and current_file_path, when set, names a path
\* that was successfully opened or written.
C10_FailureLeavesState ==
    /\ [][FailedFileOp => (text' = text /\ current_file_path' = current_file_path)]_vars
    /\ [](current_file_path # NoPath => current_file_path \in okPaths)

\* ------------------------------------------------------ C6
\* C6: what export_to_html writes is the document update_preview hands to the
\* preview for the same text and theme.
C6_ExportEqualsPreview ==
    lastOp = Op("export_to_html", "", "exported") =>
        htmlFile = File(FileWrite(PreviewDocument(current_css, text), linesep))

\* ------------------------------------------------------ C8
\* A step of export_to_pdf (the engine's completion of a request is another).
PdfExportStep ==
    /\ lastOp'.op = "export_to_pdf"
    /\ Len(pdfPending') >= Len(pdfPending)
    /\ lastOp' # lastOp \/ pdfPending' # pdfPending

\* C8: export_to_pdf reports success in the very step that issues the print
\* request, while the request is still pending and whatever its outcome will
\* be; it reports failure only when issuing the request raised, and then no
\* request stands; a cancelled dialog requests and reports nothing.  The
\* request prints the document the preview holds, not a fresh render.
C8_PdfSuccessBeforeCompletion ==
    [][PdfExportStep =>
          /\ lastOp'.res \in {"success", "failed", "cancelled"}
          /\ (lastOp'.res = "success") <=> (pdfPending' # pdfPending)
          /\ lastOp'.res = "success" =>
                \E p \in PdfPaths :
                    pdfPending' = Append(pdfPending, [path |-> p, doc |-> previewHtml])
          /\ pdfDone' = pdfDone
          /\ previewHtml' = previewHtml]_vars

\* Success stands reported for a request that has since failed, and what was
\* sent to print was a preview older than the editor's text.
C8_Witness ==
    /\ lastOp = Op("export_to_pdf", "", "success")
    /\ pdfPending = <<>>
    /\ pdfDone = "failed"
    /\ timerActive
    /\ ~InSync

\* ------------------------------------------------------ C5
\* C5: a key that fails validation leaves the bridge without a credential and
\* the slot finished with no request sent; from then on, until a key passes, an
\* attempt to generate always has content and shows the key prompt again; a
\* request is only ever in progress with a key that passed.
C5_RejectedKeyReprompts ==
    /\ [](lastOp = Op("get_api_key", "", "invalid") =>
            (~api_key_set /\ gemini_api_key = NoKey /\ aiPc = "idle" /\ keyRejected))
    /\ [](keyRejected => (ai_input_text # <<>> /\ aiPc \in {"idle", "prompt", "validating"}))
    /\ [][(keyRejected /\ aiPc = "idle" /\ lastOp'.op = "run_ai_generation"
            /\ (lastOp' # lastOp \/ aiPc' # aiPc)) => aiPc' = "prompt"]_vars

\* After a rejected key the next attempt is at the key prompt.
C5_Witness ==
    /\ keyRejected
    /\ aiPc = "prompt"
    /\ lastOp = Op("run_ai_generation", "", "prompt")
    /\ ~api_key_set
    /\ gemini_api_key = NoKey

\* ------------------------------------------------------ C7
\* The state of the bridge.
BridgeState ==
    CASE aiPc \in {"prompt", "validating"} -> "KeyPending"
      [] aiPc \notin {"prompt", "validating"} /\ api_key_set /\ gemini_api_key # NoKey -> "KeyValid"
      [] aiPc \notin {"prompt", "validating"} /\ ~api_key_set /\ gemini_api_key = NoKey -> "NoKey"
      [] OTHER -> "Invalid"

BridgeTransitions ==
    { <<"NoKey", "KeyPending">>, <<"KeyPending", "KeyValid">>, <<"KeyPending", "NoKey">> }

\* C7: the bridge is always in NoKey, KeyPending or KeyValid; it moves only
\* NoKey -> KeyPending -> KeyValid or KeyPending -> NoKey; a generation request
\* is in progress only in KeyValid and with content to analyze; and KeyValid is
\* never left, so later calls reuse the key unprompted, a failed generation
\* included.
C7_BridgeStateMachine ==
    /\ [](BridgeState # "Invalid")
    /\ [](aiPc = "prompt" => (~api_key_set /\ gemini_api_key = NoKey))
    /\ [](aiPc = "validating" => (api_key_set /\ gemini_api_key # NoKey))
    /\ [](aiPc = "sending" => (BridgeState = "KeyValid" /\ ai_input_text # <<>>))
    /\ [](lastOp.op = "generate_content" => (BridgeState = "KeyValid" /\ ai_input_text # <<>>))
    /\ [][BridgeState' # BridgeState => <<BridgeState, BridgeState'>> \in BridgeTransitions]_vars
    /\ [][BridgeState = "KeyValid" => (aiPc' # "prompt" /\ gemini_api_key' = gemini_api_key)]_vars

\* A later call went ahead on the cached key, unprompted, with no response on
\* show from the call before.
C7_Witness ==
    /\ lastOp = Op("run_ai_generation", "", "cached_key")
    /\ aiPc = "sending"
    /\ BridgeState = "KeyValid"
    /\ ai_output_text = <<>>
    /\ gemini_api_key = "good"

====
